---- MODULE Spec2Model ----
(***************************************************************************)
(* Task Management API (server.js): an Express application over a Mongoose *)
(* model `Task`.  The state is the MongoDB collection, the store calls     *)
(* that handlers have issued and are awaiting, the HTTP response sent by   *)
(* the last step, and the position of startServer().                       *)
(***************************************************************************)
EXTENDS Integers, Sequences, FiniteSets, TLC

\* ---------------------------------------------------------------- bounds
MaxTasks == 2       \* documents the store ever creates (ObjectIds 1..MaxTasks)
MaxClock == 3       \* writes that stamp a timestamp (createdAt / updatedAt)
MaxPending == 2     \* store calls awaited at the same time

\* ---------------------------------------------------------------- values
Absent == "undefined"          \* a property the JSON body / document lacks
GoodDate == "2026-01-01"       \* a dueDate that casts to Date
BadDate == "not-a-date"        \* a dueDate whose cast to Date fails
MalformedId == 0               \* an :id that does not cast to ObjectId
NoId == -1                     \* routes without an :id parameter
ObjectIds == 1..MaxTasks       \* well-formed ids; the store assigns them in order

StatusEnum == {"Pending", "Completed"}

Body(t, d, due, s) == [title |-> t, description |-> d, dueDate |-> due, status |-> s]
EmptyBody == Body(Absent, Absent, Absent, Absent)

\* Request bodies sent to POST /tasks and PUT /tasks/:id.
Bodies ==
    { EmptyBody,
      Body("A", Absent, Absent, Absent),
      Body("B", "d", GoodDate, "Completed"),
      Body("", Absent, Absent, Absent),
      Body(Absent, Absent, Absent, "Archived"),
      Body("A", Absent, BadDate, Absent) }

\* Values of body.status sent to PATCH /tasks/:id/status.
PatchStatuses == {Absent, "Pending", "Completed", "Archived"}

ReqIds == ObjectIds \cup {MalformedId}

Req(op, id, body) == [op |-> op, id |-> id, body |-> body]

VARIABLES
    pc,         \* position of startServer(): "start", "connecting", "running", "failed", "exited"
    uri,        \* process.env.MONGODB_URI: "absent", "reachable", "unreachable"
    connects,   \* number of calls of mongoose.connect
    listening,  \* app.listen has been called
    log,        \* lines written by console.log / console.error
    store,      \* the tasks collection: _id -> document
    nextId,     \* the next ObjectId the store assigns
    now,        \* the clock that stamps createdAt / updatedAt
    pending,    \* store calls issued by handlers and not yet answered
    last        \* the HTTP response the last step sent, with its request; NoResponse if it sent none

vars == <<pc, uri, connects, listening, log, store, nextId, now, pending, last>>

\* ---------------------------------------------------------------- schema
\* taskSchema: title required (a String is required to be non-empty),
\* status in the enum, dueDate castable to Date.
RequiredOk(title) == title # Absent /\ title # ""
EnumOk(status) == status \in StatusEnum
DateCastOk(due) == due # BadDate

\* Variant: the schema without `required` on title.
ValidationPathsTitleOptional(body) ==
    (IF body.status = Absent \/ EnumOk(body.status) THEN {} ELSE {"status"})
    \cup (IF DateCastOk(body.dueDate) THEN {} ELSE {"dueDate"})

\* The paths Document.validate() reports for `new Task(body)`.
ValidationPaths(body) ==
    (IF RequiredOk(body.title) THEN {} ELSE {"title"})
    \cup (IF body.status = Absent \/ EnumOk(body.status) THEN {} ELSE {"status"})
    \cup (IF DateCastOk(body.dueDate) THEN {} ELSE {"dueDate"})

\* The document `new Task(body)` inserts: schema default for status, timestamps.
NewDoc(body, t) ==
    [title |-> body.title, description |-> body.description, dueDate |-> body.dueDate,
     status |-> IF body.status = Absent THEN "Pending" ELSE body.status,
     createdAt |-> t, updatedAt |-> t]

\* Variant: the update replaces the document by the body instead of $set.
ApplyUpdateReplace(doc, body, t) ==
    [title |-> body.title, description |-> body.description, dueDate |-> body.dueDate,
     status |-> IF body.status = Absent THEN doc.status ELSE body.status,
     createdAt |-> doc.createdAt, updatedAt |-> t]

\* $set of the supplied paths, and the timestamps plugin's updatedAt.
ApplyUpdate(doc, body, t) ==
    [title |-> IF body.title = Absent THEN doc.title ELSE body.title,
     description |-> IF body.description = Absent THEN doc.description ELSE body.description,
     dueDate |-> IF body.dueDate = Absent THEN doc.dueDate ELSE body.dueDate,
     status |-> IF body.status = Absent THEN doc.status ELSE body.status,
     createdAt |-> doc.createdAt, updatedAt |-> t]

\* A stored document as it is serialised in a response (with its _id).
Json(id, doc) ==
    [id |-> id, title |-> doc.title, description |-> doc.description,
     dueDate |-> doc.dueDate, status |-> doc.status,
     createdAt |-> doc.createdAt, updatedAt |-> doc.updatedAt]

\* ---------------------------------------------------------------- responses
Message(text) == [text |-> text, paths |-> {}]
ErrMessage(name, paths) == [text |-> name, paths |-> paths]
NoMessage == Message("")

Response(r, code, msg, docs, count) ==
    [req |-> r, code |-> code, msg |-> msg, docs |-> docs, count |-> count]

NoResponse == Response(Req("none", NoId, EmptyBody), 0, NoMessage, <<>>, -1)

\* ---------------------------------------------------------------- store
NoDocs == [i \in {} |-> NewDoc(EmptyBody, 0)]

\* insertOne / the write of findOneAndUpdate
Put(s, id, doc) == [i \in DOMAIN s \cup {id} |-> IF i = id THEN doc ELSE s[i]]

\* deleteOne / deleteMany
Remove(s, ids) == [i \in DOMAIN s \ ids |-> s[i]]

\* Task.find().sort({ createdAt: -1 }): newest first.
RECURSIVE SortNewestFirst(_, _)
SortNewestFirst(s, ids) ==
    IF ids = {} THEN <<>>
    ELSE LET top == CHOOSE i \in ids : \A j \in ids :
                        \/ s[j].createdAt < s[i].createdAt
                        \/ (s[j].createdAt = s[i].createdAt /\ j <= i)
         IN <<Json(top, s[top])>> \o SortNewestFirst(s, ids \ {top})

Find(s) == SortNewestFirst(s, DOMAIN s)

\* Variant: deleteMany with an empty filter.
CompletedIdsNoFilter(s) == DOMAIN s

\* The filter { status: 'Completed' } of deleteMany.
CompletedIds(s) == {i \in DOMAIN s : s[i].status = "Completed"}

\* ---------------------------------------------------------------- startup
Init ==
    /\ pc = "start"
    /\ uri \in {"absent", "reachable", "unreachable"}
    /\ connects = 0
    /\ listening = FALSE
    /\ log = <<>>
    /\ store = NoDocs
    /\ nextId = 1
    /\ now = 0
    /\ pending = {}
    /\ last = NoResponse

api == <<store, nextId, now, pending, last>>
boot == <<pc, uri, connects, listening, log>>

\* startServer(): await mongoose.connect(process.env.MONGODB_URI)
StartServer ==
    /\ pc = "start"
    /\ pc' = "connecting"
    /\ connects' = connects + 1
    /\ UNCHANGED <<uri, listening, log, api>>

\* the connection is established: log, then app.listen(PORT, ...)
ConnectResolved ==
    /\ pc = "connecting"
    /\ uri = "reachable"
    /\ log' = log \o <<"Connected to MongoDB Atlas", "Server running">>
    /\ listening' = TRUE
    /\ pc' = "running"
    /\ UNCHANGED <<uri, connects, api>>

\* Variant: app.listen placed after the try/catch, reached on failure too.
ConnectRejectedThenListen ==
    /\ pc = "connecting"
    /\ uri # "reachable"
    /\ log' = log \o <<"Failed to connect", "Server running">>
    /\ listening' = TRUE
    /\ pc' = "running"
    /\ UNCHANGED <<uri, connects, api>>

\* mongoose.connect rejects (no uri, or no server): the catch block logs and returns
ConnectRejected ==
    /\ pc = "connecting"
    /\ uri # "reachable"
    /\ log' = Append(log, "Failed to connect")
    /\ pc' = "failed"
    /\ UNCHANGED <<uri, connects, listening, api>>

\* startServer() has returned without a listener: nothing keeps the process alive
ProcessExit ==
    /\ pc = "failed"
    /\ ~listening
    /\ pc' = "exited"
    /\ UNCHANGED <<uri, connects, listening, log, api>>

\* ---------------------------------------------------------------- requests
\* A request arrives at a listening server; its handler runs up to the await
\* of its single store call.
Await(r) ==
    /\ listening
    /\ r \notin pending
    /\ Cardinality(pending) < MaxPending
    /\ pending' = pending \cup {r}
    /\ last' = NoResponse
    /\ UNCHANGED <<store, nextId, now, boot>>

\* The store answers the call of r and the handler sends its response.
Reply(r, code, msg, docs, count) ==
    /\ r \in pending
    /\ pending' = pending \ {r}
    /\ last' = Response(r, code, msg, docs, count)

ReqGetTasks == Await(Req("list", NoId, EmptyBody))
ReqGetTask == \E id \in ReqIds : Await(Req("get", id, EmptyBody))
ReqPostTask == \E b \in Bodies : Await(Req("post", NoId, b))
ReqPutTask == \E id \in ReqIds, b \in Bodies : Await(Req("put", id, b))
ReqDeleteTask == \E id \in ReqIds : Await(Req("delete", id, EmptyBody))
ReqDeleteCompleted == Await(Req("deleteCompleted", NoId, EmptyBody))

\* Variant: PATCH without the status check.
ReqPatchStatusUnchecked ==
    \E id \in ReqIds, st \in PatchStatuses :
        Await(Req("patch", id, Body(Absent, Absent, Absent, st)))

\* PATCH: the status check precedes the store call.
ReqPatchStatus ==
    \E id \in ReqIds, st \in PatchStatuses :
        LET r == Req("patch", id, Body(Absent, Absent, Absent, st)) IN
        IF st \in StatusEnum
        THEN Await(r)
        ELSE /\ listening
             /\ last' = Response(r, 400, Message("Invalid status value"), <<>>, -1)
             /\ UNCHANGED <<store, nextId, now, pending, boot>>

\* GET /api/v1/tasks
GetTasks(r) ==
    /\ r.op = "list"
    /\ Reply(r, 200, NoMessage, Find(store), -1)
    /\ UNCHANGED <<store, nextId, now, boot>>

\* Variant: GET by id without the `if (!task)` check.
GetTaskNoNullCheck(r) ==
    /\ r.op = "get"
    /\ IF r.id = MalformedId
       THEN Reply(r, 500, ErrMessage("CastError", {"_id"}), <<>>, -1)
       ELSE IF r.id \notin DOMAIN store
       THEN Reply(r, 200, NoMessage, <<>>, -1)
       ELSE Reply(r, 200, NoMessage, <<Json(r.id, store[r.id])>>, -1)
    /\ UNCHANGED <<store, nextId, now, boot>>

\* GET /api/v1/tasks/:id
GetTask(r) ==
    /\ r.op = "get"
    /\ IF r.id = MalformedId
       THEN Reply(r, 500, ErrMessage("CastError", {"_id"}), <<>>, -1)
       ELSE IF r.id \notin DOMAIN store
       THEN Reply(r, 404, Message("Task not found"), <<>>, -1)
       ELSE Reply(r, 200, NoMessage, <<Json(r.id, store[r.id])>>, -1)
    /\ UNCHANGED <<store, nextId, now, boot>>

\* POST /api/v1/tasks
PostTask(r) ==
    /\ r.op = "post"
    /\ IF ValidationPaths(r.body) # {}
       THEN /\ Reply(r, 400, ErrMessage("ValidationError", ValidationPaths(r.body)), <<>>, -1)
            /\ UNCHANGED <<store, nextId, now>>
       ELSE /\ nextId <= MaxTasks
            /\ now < MaxClock
            /\ now' = now + 1
            /\ nextId' = nextId + 1
            /\ store' = Put(store, nextId, NewDoc(r.body, now'))
            /\ Reply(r, 201, NoMessage, <<Json(nextId, store'[nextId])>>, -1)
    /\ UNCHANGED boot

\* Variant: findByIdAndUpdate with { upsert: true }.
FindByIdAndUpdateUpsert(r) ==
    IF r.id = MalformedId
    THEN /\ Reply(r, 400, ErrMessage("CastError", {"_id"}), <<>>, -1)
         /\ UNCHANGED <<store, now>>
    ELSE IF ~DateCastOk(r.body.dueDate)
    THEN /\ Reply(r, 400, ErrMessage("CastError", {"dueDate"}), <<>>, -1)
         /\ UNCHANGED <<store, now>>
    ELSE /\ now < MaxClock
         /\ now' = now + 1
         /\ store' = Put(store, r.id,
                         IF r.id \in DOMAIN store
                         THEN ApplyUpdate(store[r.id], r.body, now')
                         ELSE NewDoc(r.body, now'))
         /\ Reply(r, 200, NoMessage, <<Json(r.id, store'[r.id])>>, -1)

\* Task.findByIdAndUpdate(id, update, { new: true }) and the handler's answer,
\* shared by PUT and PATCH.
FindByIdAndUpdate(r) ==
    IF r.id = MalformedId
    THEN /\ Reply(r, 400, ErrMessage("CastError", {"_id"}), <<>>, -1)
         /\ UNCHANGED <<store, now>>
    ELSE IF ~DateCastOk(r.body.dueDate)
    THEN /\ Reply(r, 400, ErrMessage("CastError", {"dueDate"}), <<>>, -1)
         /\ UNCHANGED <<store, now>>
    ELSE IF r.id \notin DOMAIN store
    THEN /\ Reply(r, 404, Message("Task not found"), <<>>, -1)
         /\ UNCHANGED <<store, now>>
    ELSE /\ now < MaxClock
         /\ now' = now + 1
         /\ store' = Put(store, r.id, ApplyUpdate(store[r.id], r.body, now'))
         /\ Reply(r, 200, NoMessage, <<Json(r.id, store'[r.id])>>, -1)

\* PUT /api/v1/tasks/:id
PutTask(r) ==
    /\ r.op = "put"
    /\ FindByIdAndUpdate(r)
    /\ UNCHANGED <<nextId, boot>>

\* PATCH /api/v1/tasks/:id/status, after the status check
PatchStatus(r) ==
    /\ r.op = "patch"
    /\ FindByIdAndUpdate(r)
    /\ UNCHANGED <<nextId, boot>>

\* Variant: DELETE by id without the `if (!task)` check.
DeleteTaskNoNullCheck(r) ==
    /\ r.op = "delete"
    /\ IF r.id = MalformedId
       THEN /\ Reply(r, 500, ErrMessage("CastError", {"_id"}), <<>>, -1)
            /\ UNCHANGED store
       ELSE /\ store' = Remove(store, {r.id})
            /\ Reply(r, 200, Message("Task deleted successfully"), <<>>, -1)
    /\ UNCHANGED <<nextId, now, boot>>

\* DELETE /api/v1/tasks/:id
DeleteTask(r) ==
    /\ r.op = "delete"
    /\ IF r.id = MalformedId
       THEN /\ Reply(r, 500, ErrMessage("CastError", {"_id"}), <<>>, -1)
            /\ UNCHANGED store
       ELSE IF r.id \notin DOMAIN store
       THEN /\ Reply(r, 404, Message("Task not found"), <<>>, -1)
            /\ UNCHANGED store
       ELSE /\ store' = Remove(store, {r.id})
            /\ Reply(r, 200, Message("Task deleted successfully"), <<>>, -1)
    /\ UNCHANGED <<nextId, now, boot>>

\* DELETE /api/v1/tasks
DeleteCompleted(r) ==
    /\ r.op = "deleteCompleted"
    /\ store' = Remove(store, CompletedIds(store))
    /\ Reply(r, 200, Message("Deleted completed tasks"), <<>>, Cardinality(CompletedIds(store)))
    /\ UNCHANGED <<nextId, now, boot>>

Next ==
    \/ StartServer
    \/ ConnectResolved
    \/ ConnectRejected
    \/ ProcessExit
    \/ ReqGetTasks
    \/ ReqGetTask
    \/ ReqPostTask
    \/ ReqPutTask
    \/ ReqPatchStatus
    \/ ReqDeleteTask
    \/ ReqDeleteCompleted
    \/ \E r \in pending : GetTasks(r)
    \/ \E r \in pending : GetTask(r)
    \/ \E r \in pending : PostTask(r)
    \/ \E r \in pending : PutTask(r)
    \/ \E r \in pending : PatchStatus(r)
    \/ \E r \in pending : DeleteTask(r)
    \/ \E r \in pending : DeleteCompleted(r)

Spec == Init /\ [][Next]_vars

\* Node runs every ready continuation and ends a process that has nothing left to run.
FairSpec ==
    /\ Spec
    /\ WF_vars(StartServer)
    /\ WF_vars(ConnectResolved)
    /\ WF_vars(ConnectRejected)
    /\ WF_vars(ProcessExit)

\* ================================================================ claims
\* The step answered a request of route `op` (last holds that response).
Answers(op) == last'.req.op = op

\* The documents other than `id` are what they were.
OthersUnchanged(id) ==
    /\ DOMAIN store' \ {id} = DOMAIN store \ {id}
    /\ \A i \in DOMAIN store \ {id} : store'[i] = store[i]

\* C1: every task persisted in the store has a non-empty title and a status
\* that is 'Pending' or 'Completed', whatever requests were served.
C1_PersistedTasksValid ==
    \A i \in DOMAIN store :
        /\ store[i].title # Absent
        /\ store[i].title # ""
        /\ store[i].status \in {"Pending", "Completed"}

\* C2: delete-all-completed removes exactly the tasks whose status is
\* Completed, reports their number, leaves every other task unchanged (on a
\* collection of Completed and Pending tasks: exactly the Pending ones), and
\* list-all returns exactly the documents of the collection.
C2_DeleteAllCompleted ==
    [][ /\ Answers("deleteCompleted") =>
              LET gone == {i \in DOMAIN store : store[i].status = "Completed"}
                  kept == {i \in DOMAIN store : store[i].status = "Pending"} IN
              /\ last'.code = 200
              /\ last'.count = Cardinality(gone)
              /\ DOMAIN store' = DOMAIN store \ gone
              /\ \A i \in DOMAIN store' : store'[i] = store[i]
              /\ (DOMAIN store = gone \cup kept => DOMAIN store' = kept)
        /\ Answers("list") =>
              /\ last'.code = 200
              /\ store' = store
              /\ Len(last'.docs) = Cardinality(DOMAIN store)
              /\ {last'.docs[k] : k \in 1..Len(last'.docs)}
                    = {Json(i, store[i]) : i \in DOMAIN store}
      ]_vars

C2_Witness ==
    /\ last.req.op = "deleteCompleted"
    /\ last.count = 1
    /\ Cardinality(DOMAIN store) = 1
    /\ \A i \in DOMAIN store : store[i].status = "Pending"

\* C3: a status update with a valid status on an existing task answers 200
\* and changes only that task's status (to the requested one, whatever it
\* was) and updatedAt; every other field and every other task is unchanged.
C3_StatusUpdateFrame ==
    [][ (/\ Answers("patch")
         /\ last'.req.body.status \in {"Pending", "Completed"}
         /\ last'.req.id \in DOMAIN store) =>
            LET id == last'.req.id IN
            /\ last'.code = 200
            /\ id \in DOMAIN store'
            /\ store'[id].status = last'.req.body.status
            /\ store'[id].title = store[id].title
            /\ store'[id].description = store[id].description
            /\ store'[id].dueDate = store[id].dueDate
            /\ store'[id].createdAt = store[id].createdAt
            /\ last'.docs = <<Json(id, store'[id])>>
            /\ OthersUnchanged(id)
            /\ nextId' = nextId
      ]_vars

\* a task created or rewritten as Completed (title "B") was moved back to Pending
C3_Witness ==
    /\ last.req.op = "patch"
    /\ last.code = 200
    /\ last.req.body.status = "Pending"
    /\ store[last.req.id].title = "B"
    /\ Cardinality(DOMAIN store) = 2

\* C4: a status update whose status is not 'Pending' or 'Completed' (or is
\* missing) answers 400 in the step it arrives, issues no store call and
\* leaves the collection as it is, whether or not the id exists.
C4_InvalidStatusRejected ==
    /\ [](\A r \in pending : r.op = "patch" => r.body.status \in {"Pending", "Completed"})
    /\ [][ (/\ Answers("patch")
            /\ last'.req.body.status \notin {"Pending", "Completed"}) =>
               /\ last'.code = 400
               /\ last'.msg.text = "Invalid status value"
               /\ pending' = pending
               /\ store' = store
               /\ nextId' = nextId /\ now' = now
         ]_vars

C4_Witness ==
    /\ last.req.op = "patch"
    /\ last.req.body.status = "Archived"
    /\ last.code = 400
    /\ last.req.id \in DOMAIN store
    /\ pending # {}

C6_GetByIdAsClaimed ==
    [][ Answers("get") =>
          /\ store' = store
          /\ IF last'.req.id \in DOMAIN store
             THEN last'.code = 200 /\ last'.docs[1].id = last'.req.id
             ELSE last'.code = 404
      ]_vars

\* C6 (amended): get-by-id answers 200 with the task of the requested id
\* when it is in the collection, 404 for a well-formed id that is not, and
\* 500 for a malformed id; the collection is unchanged in every case.
C6_GetById ==
    [][ Answers("get") =>
          LET id == last'.req.id IN
          /\ store' = store /\ nextId' = nextId
          /\ id \in DOMAIN store =>
                (last'.code = 200 /\ last'.docs = <<Json(id, store[id])>> /\ last'.docs[1].id = id)
          /\ (id \in ObjectIds /\ id \notin DOMAIN store) =>
                (last'.code = 404 /\ last'.docs = <<>>)
          /\ id = MalformedId => (last'.code = 500 /\ last'.docs = <<>>)
      ]_vars

\* a task is found while another id of the same collection is gone
C6_Witness ==
    /\ last.req.op = "get"
    /\ last.code = 200
    /\ last.docs[1].id = 2
    /\ 1 \notin DOMAIN store

\* C7 (as claimed): delete-by-id answers 404 and changes nothing for every
\* id that is not in the collection, and answers 200 and removes exactly
\* that task for an id that is.
C7_DeleteByIdAsClaimed ==
    [][ Answers("delete") =>
          IF last'.req.id \in DOMAIN store
          THEN last'.code = 200 /\ store' = Remove(store, {last'.req.id})
          ELSE last'.code = 404 /\ store' = store
      ]_vars

\* C7 (amended): delete-by-id answers 404 for a well-formed id that is not
\* in the collection and 500 for a malformed id, the collection unchanged in
\* both cases; for an id in the collection it answers 200 and removes
\* exactly that task.
C7_DeleteById ==
    [][ Answers("delete") =>
          LET id == last'.req.id IN
          /\ id \in DOMAIN store =>
                /\ last'.code = 200
                /\ id \notin DOMAIN store'
                /\ Cardinality(DOMAIN store') = Cardinality(DOMAIN store) - 1
                /\ OthersUnchanged(id)
          /\ (id \in ObjectIds /\ id \notin DOMAIN store) =>
                (last'.code = 404 /\ store' = store)
          /\ id = MalformedId => (last'.code = 500 /\ store' = store)
      ]_vars

\* a second delete of the same id finds nothing, the other task still there
C7_Witness ==
    /\ last.req.op = "delete"
    /\ last.code = 404
    /\ last.req.id < nextId
    /\ Cardinality(DOMAIN store) = 1

\* C8: a response that carries an error raised by the store (here: the
\* malformed identifier) has status 500, one that carries a validation
\* failure has status 400, and 'Task not found' has status 404.
C8_ErrorStatusCodes ==
    /\ (last.msg.text = "CastError" /\ "_id" \in last.msg.paths) => last.code = 500
    /\ (last.msg.text = "ValidationError" \/ last.msg.text = "Invalid status value"
            \/ (last.msg.text = "CastError" /\ "dueDate" \in last.msg.paths)) => last.code = 400
    /\ last.msg.text = "Task not found" => last.code = 404

\* C9: the listener is started only once the connection is established; with
\* no connection string or a failed attempt the failure is logged, connect is
\* called once, nothing is ever served, the only step left is the exit of
\* the process, and the process does exit.
C9_StartupAndExit ==
    /\ (uri # "reachable") ~> (pc = "exited")
    /\ [](listening => (pc = "running" /\ uri = "reachable" /\ log[1] = "Connected to MongoDB Atlas"))
    /\ []((pending # {} \/ last # NoResponse \/ DOMAIN store # {}) => listening)
    /\ [](connects <= 1)
    /\ [](uri # "reachable" => ~listening)
    /\ [](pc \in {"failed", "exited"} =>
            (uri # "reachable" /\ connects = 1 /\ log = <<"Failed to connect">>))
    /\ [](pc = "failed" => ENABLED ProcessExit)
    /\ [][pc = "failed" => pc' = "exited"]_vars
    /\ [][pc # "exited"]_vars

C9_Witness ==
    /\ pc = "exited"
    /\ uri = "absent"
    /\ ~listening

\* C10: an id the store has assigned and that is no longer in the collection
\* never comes back; a delete answered 200 removed its task; a full update or
\* status update that reaches the store (its id and fields cast) when the task
\* is gone answers 404 and writes nothing; one that succeeds writes its fields over the document
\* as it is in the store at that moment, and no other pending request or
\* task is touched.
C10_ConcurrentSameId ==
    /\ [][ \A id \in ObjectIds :
              (id < nextId /\ id \notin DOMAIN store) => id \notin DOMAIN store' ]_vars
    /\ [][ (Answers("delete") /\ last'.code = 200) =>
              (last'.req.id \in DOMAIN store /\ last'.req.id \notin DOMAIN store') ]_vars
    /\ [][ ((Answers("put") \/ Answers("patch")) /\ last'.req \in pending) =>
              LET id == last'.req.id
                  b == last'.req.body IN
              /\ pending' = pending \ {last'.req}
              /\ (id \in ObjectIds /\ id \notin DOMAIN store /\ b.dueDate # BadDate) =>
                    (last'.code = 404 /\ store' = store)
              /\ last'.code # 200 => store' = store
              /\ last'.code = 200 =>
                    /\ id \in DOMAIN store /\ id \in DOMAIN store'
                    /\ OthersUnchanged(id)
                    /\ \A f \in {"title", "description", "dueDate", "status"} :
                          store'[id][f] = IF b[f] = Absent THEN store[id][f] ELSE b[f]
                    /\ store'[id].createdAt = store[id].createdAt
                    /\ store'[id].updatedAt > store[id].updatedAt
         ]_vars

\* an update answered 404 for a deleted id while another request on that id
\* is still awaiting the store
C10_Witness ==
    /\ last.req.op \in {"put", "patch"}
    /\ last.code = 404
    /\ last.req.id < nextId
    /\ \E r \in pending : r.id = last.req.id /\ r.op \in {"put", "patch", "delete"}

====
